---- MODULE Spec2Model ----
(***************************************************************************)
(* Model of the ragika API server (services/api/src/index.ts): the text    *)
(* chunker, the reranker, collection provisioning, and the /ingest/text,   *)
(* /chat/query and /healthz handlers with the network calls they issue to  *)
(* the vector store, the embedding backend, the rerank backend and the LLM *)
(* backend.                                                                *)
(*                                                                         *)
(* Strings the code inspects character by character (document text, LLM    *)
(* answers) are sequences of one-character strings.  Array indices are the *)
(* 0-based JavaScript indices; TLA+ sequences are 1-based, so hits[i] of   *)
(* the code is hits[i + 1] here.                                           *)
(***************************************************************************)
EXTENDS Integers, Sequences, FiniteSets, TLC

(***************************************************************************)
(* Bounds of the model.                                                    *)
(***************************************************************************)
\* longest enumerated text handed to chunkText on its own
MaxTextLen == 4
\* largest maxTokens handed to chunkText on its own
MaxLimit == 3
\* most hits a vector search returns
MaxHits == 3
\* most requests the server receives in one behaviour
MaxRequests == 1
\* the MAX_CONTEXT an environment that sets one configures
MaxContextEnv == 2
\* words of the long document the ingestion scenario submits
LongDocWords == 1200
\* most calls of ensureCollection made on its own
MaxEnsureCalls == 2
\* most requests the server receives one after the other
MaxSeqRequests == 2
\* most chats the web client holds
MaxChats == 2
\* most messages sent from the web client
MaxSends == 2

(***************************************************************************)
(* Constants of the program.                                               *)
(***************************************************************************)
\* MAX_CONTEXT when the environment sets none
DefaultMaxContext == 8
\* maxTokens the ingest handler passes to chunkText
IngestMaxTokens == 500

(***************************************************************************)
(* Characters.  \s of the regular expression is modelled by two of its    *)
(* members, the space and the newline.                                     *)
(***************************************************************************)
Whitespace == {" ", "\n"}
Letters == {"a", "b"}
Chars == Letters \cup Whitespace

RECURSIVE TextsUpTo(_)
TextsUpTo(n) ==
  IF n = 0 THEN {<<>>}
  ELSE LET shorter == TextsUpTo(n - 1)
       IN  shorter \cup {Append(t, c) : t \in {s \in shorter : Len(s) = n - 1}, c \in Chars}

(***************************************************************************)
(* The loops over a sequence below are evaluated by halving the range, so  *)
(* that the depth of evaluation stays logarithmic in its length:           *)
(* XRange(s, lo, hi, st) is the state of                                   *)
(* `for (x of s[lo..hi]) st = XStep(st, x)`.  The test left = left makes   *)
(* the left half's state a value before the right half starts.             *)
(*                                                                         *)
(* String.prototype.split(/\s+/): the pieces of the text between maximal   *)
(* runs of whitespace.  A text that begins (ends) with whitespace has an   *)
(* empty first (last) piece, and the empty text has the one piece "".      *)
(***************************************************************************)
SplitStep(st, c) ==
  IF c \in Whitespace
  THEN IF st.inSep THEN st
       ELSE [pieces |-> Append(st.pieces, st.cur), cur |-> <<>>, inSep |-> TRUE]
  ELSE [pieces |-> st.pieces, cur |-> Append(st.cur, c), inSep |-> FALSE]

RECURSIVE SplitRange(_, _, _, _)
SplitRange(text, lo, hi, st) ==
  IF lo > hi THEN st
  ELSE IF lo = hi THEN SplitStep(st, text[lo])
  ELSE LET mid == (lo + hi) \div 2
           left == SplitRange(text, lo, mid, st)
       IN  IF left = left THEN SplitRange(text, mid + 1, hi, left) ELSE st

SplitWhitespace(text) ==
  LET end == SplitRange(text, 1, Len(text), [pieces |-> <<>>, cur |-> <<>>, inSep |-> FALSE])
  IN  Append(end.pieces, end.cur)

(***************************************************************************)
(* Array.prototype.join(' ').                                              *)
(***************************************************************************)
JoinStep(acc, word) == IF acc.first THEN [first |-> FALSE, str |-> word]
                       ELSE [first |-> FALSE, str |-> acc.str \o <<" ">> \o word]

RECURSIVE JoinRange(_, _, _, _)
JoinRange(words, lo, hi, acc) ==
  IF lo > hi THEN acc
  ELSE IF lo = hi THEN JoinStep(acc, words[lo])
  ELSE LET mid == (lo + hi) \div 2
           left == JoinRange(words, lo, mid, acc)
       IN  IF left = left THEN JoinRange(words, mid + 1, hi, left) ELSE acc

JoinSpace(words) == JoinRange(words, 1, Len(words), [first |-> TRUE, str |-> <<>>]).str

(***************************************************************************)
(* chunkText(text, maxTokens).                                             *)
(***************************************************************************)
\* the body of for (const word of words)
ChunkStep(maxTokens, st, word) ==
  LET current == Append(st.current, word)
      count == st.count + 1
  IN  IF count >= maxTokens
      THEN [chunks |-> Append(st.chunks, JoinSpace(current)), current |-> <<>>, count |-> 0]
      ELSE [chunks |-> st.chunks, current |-> current, count |-> count]

RECURSIVE ChunkRange(_, _, _, _, _)
ChunkRange(maxTokens, words, lo, hi, st) ==
  IF lo > hi THEN st
  ELSE IF lo = hi THEN ChunkStep(maxTokens, st, words[lo])
  ELSE LET mid == (lo + hi) \div 2
           left == ChunkRange(maxTokens, words, lo, mid, st)
       IN  IF left = left THEN ChunkRange(maxTokens, words, mid + 1, hi, left) ELSE st

chunkText(text, maxTokens) ==
  LET words == SplitWhitespace(text)
      end == ChunkRange(maxTokens, words, 1, Len(words),
                        [chunks |-> <<>>, current |-> <<>>, count |-> 0])
  IN  IF Len(end.current) > 0
      THEN Append(end.chunks, JoinSpace(end.current))
      ELSE end.chunks

(***************************************************************************)
(* rerankContexts.  A response of the rerank backend is a record           *)
(* [kind, scores]: the call failed ("error"), ran into its 30 s timeout    *)
(* ("timeout"), returned no body ("no_data"), a body whose scores field    *)
(* is no array ("no_scores"), or a body with a scores array ("scores").    *)
(* Scores are integers (tenths).                                           *)
(***************************************************************************)
ScoreVals == {2, 5, 9}
\* the scores the backend draws from while it serves the /chat/query handler
CoarseScoreVals == {2, 9}

Identity(contexts) == [i \in 1..Len(contexts) |-> i - 1]

\* the comparator of the sort: (a, b) => b.score - a.score
CompareScoresAscending(a, b) == a.score - b.score

CompareScores(a, b) == b.score - a.score

\* Array.prototype.sort is stable: an item goes after every item that does
\* not compare greater than it.
InsertSorted(sorted, x) ==
  LET after == {p \in 1..Len(sorted) : CompareScores(sorted[p], x) > 0}
      at == IF after = {} THEN Len(sorted) + 1
            ELSE CHOOSE p \in after : \A q \in after : p <= q
  IN  SubSeq(sorted, 1, at - 1) \o <<x>> \o SubSeq(sorted, at, Len(sorted))

RECURSIVE SortItems(_)
SortItems(items) ==
  IF items = <<>> THEN <<>>
  ELSE InsertSorted(SortItems(SubSeq(items, 1, Len(items) - 1)), items[Len(items)])

OrderFromScores(scores) ==
  LET items == [i \in 1..Len(scores) |-> [score |-> scores[i], idx |-> i - 1]]
      sorted == SortItems(items)
  IN  [i \in 1..Len(sorted) |-> sorted[i].idx]

\* if (!RERANK_BASE_URL): whether rerankContexts calls the backend at all
RerankConfiguredAlways(url) == TRUE

RerankConfigured(url) == url # ""

\* the value rerankContexts returns once the backend has answered; threw
\* says that the function rejected instead
RerankRethrows(resp, contexts) ==
  IF resp.kind = "scores" THEN [threw |-> FALSE, order |-> OrderFromScores(resp.scores)]
  ELSE IF resp.kind \in {"error", "timeout"} THEN [threw |-> TRUE, order |-> <<>>]
  ELSE [threw |-> FALSE, order |-> Identity(contexts)]

RerankResult(resp, contexts) ==
  IF resp.kind \in {"error", "timeout"}
  THEN [threw |-> FALSE, order |-> Identity(contexts)]
  ELSE IF resp.kind = "scores"
  THEN [threw |-> FALSE, order |-> OrderFromScores(resp.scores)]
  ELSE [threw |-> FALSE, order |-> Identity(contexts)]

(***************************************************************************)
(* generateAnswer.  A response of the LLM backend is a record [kind, data]:*)
(* the call failed ("error") or ran into its 300 s timeout ("timeout"),    *)
(* or it returned the body data ("ok").  A body is a record                *)
(* [hasResponse, response, hasChoices, choices]; a choice is a record      *)
(* [hasMessage, hasContent, content].  A JavaScript value that may be      *)
(* undefined is a record [defined, str].                                   *)
(***************************************************************************)
Undefined == [defined |-> FALSE, str |-> <<>>]
Defined(str) == [defined |-> TRUE, str |-> str]

\* the value generateAnswer returns, or threw when it rejects
GenerateResult(provider, resp) ==
  IF resp.kind # "ok" THEN [threw |-> TRUE, value |-> Undefined]
  ELSE IF provider = "ollama"
  THEN \* return res.data.response
       [threw |-> FALSE,
        value |-> IF resp.data.hasResponse THEN Defined(resp.data.response) ELSE Undefined]
  ELSE IF resp.data.hasChoices /\ Len(resp.data.choices) > 0
  THEN \* return res.data.choices[0].message.content
       LET first == resp.data.choices[1]
       IN  IF first.hasMessage
           THEN [threw |-> FALSE,
                 value |-> IF first.hasContent THEN Defined(first.content) ELSE Undefined]
           ELSE [threw |-> TRUE, value |-> Undefined]
  ELSE [threw |-> TRUE, value |-> Undefined]

\* String.prototype.trim
RECURSIVE TrimStart(_)
TrimStart(s) == IF s # <<>> /\ s[1] \in Whitespace THEN TrimStart(Tail(s)) ELSE s

RECURSIVE TrimEnd(_)
TrimEnd(s) ==
  IF s # <<>> /\ s[Len(s)] \in Whitespace THEN TrimEnd(SubSeq(s, 1, Len(s) - 1)) ELSE s

Trim(s) == TrimEnd(TrimStart(s))

(***************************************************************************)
(* ensureCollection.  Neither of its two requests carries a timeout: each  *)
(* ends when the vector store answers ("ok": a 2xx status) or the request  *)
(* fails ("error": any other status, or no connection).  The store answers *)
(* the existence check with 2xx only for a collection that exists, and     *)
(* refuses to create a collection that exists.                             *)
(***************************************************************************)
CollectionGetOutcomes(exists) == IF exists THEN {"ok", "error"} ELSE {"error"}

CollectionPutOutcomes(exists) == IF exists THEN {"error"} ELSE {"ok", "error"}

\* the body of the creation request
CreateBody == [vectors |-> [size |-> 1024, distance |-> "Cosine"]]

\* what ensureCollection does once the existence check has answered:
\* "return", "put" (issue the creation request) or "throw"
EnsureAfterGetThrows(outcome) == IF outcome = "ok" THEN "return" ELSE "throw"

EnsureAfterGetAlwaysPut(outcome) == "put"

EnsureAfterGet(outcome) == IF outcome = "ok" THEN "return" ELSE "put"

\* what ensureCollection does once the creation request has answered
EnsureAfterPutSwallows(outcome) == "return"

EnsureAfterPut(outcome) == IF outcome = "ok" THEN "return" ELSE "throw"

(***************************************************************************)
(* embedTexts.  A response of the embedding backend is a record            *)
(* [kind, embeddings]: "error", "timeout" (30 s), "no_embeddings" (a body  *)
(* without an embeddings array) or "embeddings".  A vector is named by the *)
(* 0-based index of the input the backend computed it for (-1: for none).  *)
(***************************************************************************)
EmbedResultLenient(resp) ==
  IF resp.kind \in {"embeddings", "no_embeddings"}
  THEN [threw |-> FALSE, vectors |-> resp.embeddings]
  ELSE [threw |-> TRUE, vectors |-> <<>>]

EmbedResultSwallows(resp) ==
  [threw |-> FALSE, vectors |-> resp.embeddings]

EmbedResult(resp) ==
  IF resp.kind = "embeddings"
  THEN [threw |-> FALSE, vectors |-> resp.embeddings]
  ELSE [threw |-> TRUE, vectors |-> <<>>]

\* the wait parameter of the upsert request: .../points?wait=true
UpsertNoWait == FALSE

UpsertWait == TRUE

\* vectors[idx] of the code, idx 0-based
VectorAt(vectors, idx) ==
  IF idx + 1 \in 1..Len(vectors) THEN [defined |-> TRUE, v |-> vectors[idx + 1]]
  ELSE [defined |-> FALSE, v |-> -1]

(***************************************************************************)
(* State.                                                                  *)
(*   ct_*            the call of chunkText on its own                      *)
(*   rr_*            the call of rerankContexts on its own: its arguments, *)
(*                   the network calls it issued and the order it returned *)
(*   RERANK_BASE_URL, LLM_PROVIDER, MAX_CONTEXT                            *)
(*                   the configuration read from the environment           *)
(*   collectionExists, points                                              *)
(*                   the vector store: whether the collection exists and   *)
(*                   the points it holds, in upsert order                  *)
(*   nextUuid        the next value uuidv4() returns (values are fresh)    *)
(*   pc              where the handler of the request in flight stands:    *)
(*                   "idle", the network call it awaits, or "done"         *)
(*   request         route and body of the request in flight               *)
(*   loc             the handler's local constants                         *)
(*   calls           the network calls the handler has issued, in order,   *)
(*                   each with its request body and its outcome            *)
(*   replies         the responses the handler has sent                    *)
(*   served          requests received so far                              *)
(*   ingested        the success responses /ingest/text has sent so far    *)
(*   ec_*            calls of ensureCollection on their own, in sequence   *)
(*                   or overlapping: where each call stands, and the log   *)
(*                   of what the calls and the vector store did, in order  *)
(*   ui_*            the web client: the chats and the current chat id of  *)
(*                   App's state, the sends (calls of handleSendMessage    *)
(*                   that passed its guard, each with its constants and    *)
(*                   the state of its /chat/query call), and the next      *)
(*                   value uuidv4() returns in the browser                 *)
(***************************************************************************)
VARIABLES ct_pc, ct_text, ct_maxTokens, ct_chunks,
          rr_pc, rr_query, rr_contexts, rr_calls, rr_result,
          RERANK_BASE_URL, LLM_PROVIDER, MAX_CONTEXT,
          collectionExists, points, nextUuid,
          pc, request, loc, calls, replies, served, ingested,
          ec_pc, ec_log,
          ui_chats, ui_currentChatId, ui_sends, ui_nextUuid

ctVars == <<ct_pc, ct_text, ct_maxTokens, ct_chunks>>
rrVars == <<rr_pc, rr_query, rr_contexts, rr_calls, rr_result>>
configVars == <<RERANK_BASE_URL, LLM_PROVIDER, MAX_CONTEXT>>
storeVars == <<collectionExists, points>>
handlerVars == <<nextUuid, pc, request, loc, calls, replies, served, ingested>>
ecVars == <<ec_pc, ec_log>>
uiVars == <<ui_chats, ui_currentChatId, ui_sends, ui_nextUuid>>

vars == <<ct_pc, ct_text, ct_maxTokens, ct_chunks,
          rr_pc, rr_query, rr_contexts, rr_calls, rr_result,
          RERANK_BASE_URL, LLM_PROVIDER, MAX_CONTEXT,
          collectionExists, points, nextUuid,
          pc, request, loc, calls, replies, served, ingested,
          ec_pc, ec_log,
          ui_chats, ui_currentChatId, ui_sends, ui_nextUuid>>

(***************************************************************************)
(* Inputs.                                                                 *)
(***************************************************************************)
\* a document of LongDocWords words separated by single spaces
LongDoc == [i \in 1..(2 * LongDocWords - 1) |-> IF i % 2 = 1 THEN "a" ELSE " "]

IngestTexts == {<<>>, <<" ", "b">>, LongDoc}
Categories == {"c1"}
Queries == {"", "q"}

\* LLM answers
Answers == {<<"a">>, <<" ", "b", "\n">>}

NoRequest == [route |-> "", text |-> <<>>, category |-> "", title |-> "", query |-> ""]

NoPrompt == [context |-> <<>>, question |-> ""]

NoLoc == [documentId |-> 0, chunks |-> <<>>, vectors |-> <<>>, points |-> <<>>,
          hits |-> <<>>, contexts |-> <<>>, order |-> <<>>, citations |-> <<>>,
          prompt |-> NoPrompt, rawAnswer |-> [threw |-> FALSE, value |-> Undefined]]

\* points indexed before the server started
SeedPoints ==
  << [id |-> 1, payload |-> [documentId |-> 11, category |-> "c1", text |-> <<"x">>, title |-> ""],
      vector |-> [defined |-> TRUE, v |-> 0]],
     [id |-> 2, payload |-> [documentId |-> 11, category |-> "c1", text |-> <<"y">>, title |-> ""],
      vector |-> [defined |-> TRUE, v |-> 1]],
     [id |-> 3, payload |-> [documentId |-> 12, category |-> "c2", text |-> <<"z">>, title |-> ""],
      vector |-> [defined |-> TRUE, v |-> 0]] >>

\* the handler at rest, before any request
HandlerIdle ==
  /\ nextUuid = 20
  /\ pc = "idle"
  /\ request = NoRequest
  /\ loc = NoLoc
  /\ calls = <<>>
  /\ replies = <<>>
  /\ served = 0
  /\ ingested = <<>>

ChunkIdle ==
  /\ ct_pc = "returned"
  /\ ct_text = <<>>
  /\ ct_maxTokens = IngestMaxTokens
  /\ ct_chunks = <<>>

RerankIdle ==
  /\ rr_pc = "returned"
  /\ rr_query = ""
  /\ rr_contexts = <<>>
  /\ rr_calls = <<>>
  /\ rr_result = <<>>

EnsureIdle ==
  /\ ec_pc = <<>>
  /\ ec_log = <<>>

\* null, as a chat id or a message id
NoId == 0

\* the web client not in use
ClientIdle ==
  /\ ui_chats = <<>>
  /\ ui_currentChatId = NoId
  /\ ui_sends = <<>>
  /\ ui_nextUuid = 1

ConfigInit ==
  /\ RERANK_BASE_URL \in {"", "http://rerank"}
  /\ LLM_PROVIDER \in {"ollama", "openai_compat"}
  /\ MAX_CONTEXT \in {MaxContextEnv, DefaultMaxContext}

ServerInit ==
  /\ ConfigInit
  /\ collectionExists \in BOOLEAN
  /\ points = IF collectionExists THEN SeedPoints ELSE <<>>

(***************************************************************************)
(* Network calls and responses of the handler in flight.                   *)
(***************************************************************************)
Pending == [kind |-> "pending"]

Call(api, body) == [api |-> api, body |-> body, outcome |-> Pending]

\* the calls with the outcome of the awaited (last) one filled in
Answered(outcome) == [calls EXCEPT ![Len(calls)].outcome = outcome]

Response(status, body) == [status |-> status, body |-> body]

\* the body each handler's catch block sends with status 500
FailureBody(route) ==
  IF route = "/ingest/text" THEN [error |-> "Failed to ingest document"]
  ELSE IF route = "/chat/query" THEN [error |-> "Failed to process chat query"]
  ELSE [status |-> "error"]

NoInformation == "I'm sorry, I couldn't find any information relevant to your question."

Min(a, b) == IF a <= b THEN a ELSE b

(***************************************************************************)
(* What the backends may answer.                                           *)
(***************************************************************************)
RECURSIVE SeqsOver(_, _)
SeqsOver(S, n) ==
  IF n = 0 THEN {<<>>}
  ELSE {Append(q, x) : q \in SeqsOver(S, n - 1), x \in S}

EmbedResponses(n) ==
  LET right == [i \in 1..n |-> i - 1]
  IN  {[kind |-> k, embeddings |-> <<>>] : k \in {"error", "timeout", "no_embeddings"}}
      \cup {[kind |-> "embeddings", embeddings |-> e] :
              e \in {right, SubSeq(right, 1, n - 1), Append(right, -1)}}

\* for n contexts, with scores drawn from vals: every scores array of up to
\* n + 1 entries
RerankResponses(n, vals) ==
  {[kind |-> k, scores |-> <<>>] : k \in {"error", "timeout", "no_data", "no_scores"}}
  \cup {[kind |-> "scores", scores |-> sc] :
          sc \in UNION {SeqsOver(vals, m) : m \in 0..(n + 1)}}

NoData == [hasResponse |-> FALSE, response |-> <<>>, hasChoices |-> FALSE, choices |-> <<>>]

Choices ==
  {[hasMessage |-> TRUE, hasContent |-> TRUE, content |-> a] : a \in Answers}
  \cup {[hasMessage |-> TRUE, hasContent |-> FALSE, content |-> <<>>],
        [hasMessage |-> FALSE, hasContent |-> FALSE, content |-> <<>>]}

GenerateResponses(provider) ==
  {[kind |-> k, data |-> NoData] : k \in {"error", "timeout"}}
  \cup {[kind |-> "ok", data |-> NoData]}
  \cup IF provider = "ollama"
       THEN {[kind |-> "ok", data |-> [NoData EXCEPT !.hasResponse = TRUE, !.response = a]] :
               a \in Answers}
       ELSE {[kind |-> "ok", data |-> [NoData EXCEPT !.hasChoices = TRUE, !.choices = ch]] :
               ch \in {<<>>} \cup {<<c>> : c \in Choices}
                      \cup {cd \in Choices \X Choices :
                              cd[1].hasContent /\ cd[2].hasContent /\ cd[1] # cd[2]
                              /\ cd[1].content = <<"a">>}}

\* the points the search filter lets through, in store order
Matching(pts, filter) ==
  SelectSeq(pts, LAMBDA p : filter = <<>> \/ p.payload.category = filter[1].match.value)

\* with_payload: true, with_vector: false
Hit(p) == [id |-> p.id, payload |-> p.payload]

\* the search fails, answers without a result field, or returns up to
\* MaxHits matching points: the first or the last n of them, in store order
SearchResponses(pts, filter) ==
  LET m == Matching(pts, filter)
      sizes == 0..Min(MaxHits, Len(m))
  IN  {[kind |-> k, result |-> <<>>] : k \in {"error", "timeout", "no_result"}}
      \cup {[kind |-> "ok", result |-> [i \in 1..n |-> Hit(m[i])]] : n \in sizes}
      \cup {[kind |-> "ok", result |-> [i \in 1..n |-> Hit(m[Len(m) - n + i])]] : n \in sizes}

(***************************************************************************)
(* The pure steps of the /chat/query handler.                              *)
(***************************************************************************)
\* hits.length === 0
IsZeroHitNever(hits) == FALSE

IsZeroHit(hits) == Len(hits) = 0

\* hits.map(hit => hit.payload.text)
Contexts(hits) == [i \in 1..Len(hits) |-> hits[i].payload.text]

\* order.slice(0, MAX_CONTEXT)
SelectIndices(order, maxContext) == SubSeq(order, 1, Min(maxContext, Len(order)))

\* an index of selectedIndices with no hit behind it: hits[i].payload throws
OutOfRange(hits, selectedIndices) ==
  \E k \in 1..Len(selectedIndices) : selectedIndices[k] \notin 0..(Len(hits) - 1)

\* selectedIndices.map(i => ({documentId: hits[i].payload.documentId,
\*                            chunkId: hits[i].id.toString()}))
\* (an id is a uuid string already: toString leaves it as it is)
CitationsInHitOrder(hits, selectedIndices) ==
  [k \in 1..Len(selectedIndices) |->
     [documentId |-> hits[k].payload.documentId, chunkId |-> hits[k].id]]

Citations(hits, selectedIndices) ==
  [k \in 1..Len(selectedIndices) |->
     [documentId |-> hits[selectedIndices[k] + 1].payload.documentId,
      chunkId |-> hits[selectedIndices[k] + 1].id]]

\* selectedIndices.map(i => contexts[i])
SelectedContexts(contexts, selectedIndices) ==
  [k \in 1..Len(selectedIndices) |-> contexts[selectedIndices[k] + 1]]

\* selectedContexts.map((ctx, i) => `[${i + 1}] ${ctx}`): the k-th entry
\* (1-based) has the 0-based index i = k - 1
ContextString(selectedContexts) ==
  [k \in 1..Len(selectedContexts) |-> [marker |-> (k - 1) + 1, text |-> selectedContexts[k]]]

ComposePrompt(selectedContexts, query) ==
  [context |-> ContextString(selectedContexts), question |-> query]

(***************************************************************************)
(* The pure step of the /ingest/text handler: one point per chunk, with    *)
(* ids uuidv4() returns one after the other, starting at firstId.          *)
(***************************************************************************)
IngestPointsOwnDocument(chunks, vectors, documentId, category, title, firstId) ==
  [k \in 1..Len(chunks) |->
     [id |-> firstId + (k - 1),
      payload |-> [documentId |-> firstId + (k - 1), category |-> category,
                   text |-> chunks[k], title |-> title],
      vector |-> VectorAt(vectors, k - 1)]]

IngestPoints(chunks, vectors, documentId, category, title, firstId) ==
  [k \in 1..Len(chunks) |->
     [id |-> firstId + (k - 1),
      payload |-> [documentId |-> documentId, category |-> category,
                   text |-> chunks[k], title |-> title],
      vector |-> VectorAt(vectors, k - 1)]]

(***************************************************************************)
(* The handlers.  One action per stretch of code between two awaits.       *)
(***************************************************************************)
\* the catch block of the handler in flight; c is the call log
HandlerCatch(c) ==
  /\ calls' = c
  /\ replies' = Append(replies, Response(500, FailureBody(request.route)))
  /\ pc' = "done"

\* if (!text || !category): the empty string is falsy
IngestValidTextOnly(text, category) == text # <<>>

IngestValid(text, category) == text # <<>> /\ category # ""

\* if (!query)
QueryValid(query) == query # ""

\* a request arrives and its handler runs up to the first await
Receive(req, valid, rejection) ==
  /\ pc \in {"idle", "done"}
  /\ served' = served + 1
  /\ request' = req
  /\ loc' = NoLoc
  /\ \/ /\ ~valid
        /\ calls' = <<>>
        /\ replies' = <<Response(400, [error |-> rejection])>>
        /\ pc' = "done"
     \/ /\ valid
        \* ensureCollection: axios.get
        /\ calls' = <<Call("collection_get", <<>>)>>
        /\ replies' = <<>>
        /\ pc' = "collection_get"
  /\ UNCHANGED <<ctVars, rrVars, ecVars, uiVars, configVars, storeVars, nextUuid, ingested>>

ReceiveIngest(text, category) ==
  Receive([NoRequest EXCEPT !.route = "/ingest/text", !.text = text, !.category = category],
          IngestValid(text, category), "text and category are required")

ReceiveQuery(query, category) ==
  Receive([NoRequest EXCEPT !.route = "/chat/query", !.query = query, !.category = category],
          QueryValid(query), "query is required")

ReceiveHealth ==
  Receive([NoRequest EXCEPT !.route = "/healthz"], TRUE, "")

\* ensureCollection has returned: the handler runs up to its next await
EnsureReturned(c) ==
  \/ /\ request.route = "/ingest/text"
     /\ LET documentId == nextUuid
            chunks == chunkText(request.text, IngestMaxTokens)
        IN  /\ loc' = [loc EXCEPT !.documentId = documentId, !.chunks = chunks]
            /\ calls' = Append(c, Call("embed", chunks))
     /\ nextUuid' = nextUuid + 1
     /\ pc' = "embed"
     /\ UNCHANGED replies
  \/ /\ request.route = "/chat/query"
     /\ calls' = Append(c, Call("embed", <<request.query>>))
     /\ pc' = "embed"
     /\ UNCHANGED <<loc, nextUuid, replies>>
  \/ /\ request.route = "/healthz"
     /\ calls' = c
     /\ replies' = Append(replies, Response(200, [status |-> "ok"]))
     /\ pc' = "done"
     /\ UNCHANGED <<loc, nextUuid>>

\* the existence check answers
CollectionGetResponse(outcome) ==
  /\ pc = "collection_get"
  /\ outcome \in CollectionGetOutcomes(collectionExists)
  /\ \/ /\ EnsureAfterGet(outcome) = "return"
        /\ EnsureReturned(Answered([kind |-> outcome]))
     \/ /\ EnsureAfterGet(outcome) = "put"
        /\ calls' = Append(Answered([kind |-> outcome]), Call("collection_put", CreateBody))
        /\ pc' = "collection_put"
        /\ UNCHANGED <<loc, nextUuid, replies>>
     \/ /\ EnsureAfterGet(outcome) = "throw"
        /\ HandlerCatch(Answered([kind |-> outcome]))
        /\ UNCHANGED <<loc, nextUuid>>
  /\ UNCHANGED <<ctVars, rrVars, ecVars, uiVars, configVars, storeVars, request, served, ingested>>

\* the creation answers
CollectionPutResponse(outcome) ==
  /\ pc = "collection_put"
  /\ outcome \in CollectionPutOutcomes(collectionExists)
  /\ collectionExists' = (collectionExists \/ outcome = "ok")
  /\ \/ /\ EnsureAfterPut(outcome) = "return"
        /\ EnsureReturned(Answered([kind |-> outcome]))
     \/ /\ EnsureAfterPut(outcome) = "throw"
        /\ HandlerCatch(Answered([kind |-> outcome]))
        /\ UNCHANGED <<loc, nextUuid>>
  /\ UNCHANGED <<ctVars, rrVars, ecVars, uiVars, configVars, points, request, served, ingested>>

\* the embedding backend answers
EmbedResponse(resp) ==
  /\ pc = "embed"
  /\ resp \in EmbedResponses(Len(calls[Len(calls)].body))
  /\ LET r == EmbedResult(resp)
         c == Answered(resp)
     IN  \/ /\ r.threw
            /\ HandlerCatch(c)
            /\ UNCHANGED <<loc, nextUuid>>
         \/ /\ ~r.threw
            /\ request.route = "/ingest/text"
            /\ LET pts == IngestPoints(loc.chunks, r.vectors, loc.documentId,
                                       request.category, request.title, nextUuid)
               IN  /\ loc' = [loc EXCEPT !.vectors = r.vectors, !.points = pts]
                   /\ calls' = Append(c, Call("upsert", [points |-> pts,
                                                         wait |-> UpsertWait]))
            /\ nextUuid' = nextUuid + Len(loc.chunks)
            /\ pc' = "upsert"
            /\ UNCHANGED replies
         \/ /\ ~r.threw
            /\ request.route = "/chat/query"
            /\ LET queryVector == VectorAt(r.vectors, 0)
                   filter == IF request.category # ""
                             THEN <<[key |-> "category",
                                     match |-> [value |-> request.category]]>>
                             ELSE <<>>
               IN  calls' = Append(c, Call("search", [vector |-> queryVector,
                                                      filter |-> filter]))
            /\ loc' = [loc EXCEPT !.vectors = r.vectors]
            /\ pc' = "search"
            /\ UNCHANGED <<nextUuid, replies>>
  /\ UNCHANGED <<ctVars, rrVars, ecVars, uiVars, configVars, storeVars, request, served, ingested>>

\* the upsert (60 s timeout) answers.  The store acknowledges a request in
\* wait-for-completion mode only once it has applied the write, and any
\* other request possibly before; after a timeout it may or may not have
\* applied the write.
UpsertResponse(outcome, applied) ==
  /\ pc = "upsert"
  /\ outcome \in {"ok", "error", "timeout"}
  /\ applied \in BOOLEAN
  /\ (outcome = "ok" /\ calls[Len(calls)].body.wait) => applied
  /\ (outcome = "error") => ~applied
  /\ points' = IF applied THEN points \o loc.points ELSE points
  /\ \/ /\ outcome = "ok"
        /\ calls' = Answered([kind |-> "ok"])
        /\ replies' = Append(replies,
                             Response(200, [documentId |-> loc.documentId,
                                            chunks |-> Len(loc.points)]))
        /\ ingested' = Append(ingested, [documentId |-> loc.documentId,
                                         chunks |-> Len(loc.points)])
        /\ pc' = "done"
     \/ /\ outcome # "ok"
        /\ HandlerCatch(Answered([kind |-> outcome]))
        /\ UNCHANGED ingested
  /\ UNCHANGED <<ctVars, rrVars, ecVars, uiVars, configVars, collectionExists, nextUuid, request, loc,
                 served>>

\* select, cite, compose, and call generateAnswer; c is the call log
SelectAndGenerate(c, hits, contexts, order) ==
  LET selectedIndices == SelectIndices(order, MAX_CONTEXT)
  IN  \/ /\ OutOfRange(hits, selectedIndices)
         \* TypeError: caught by the handler
         /\ loc' = [loc EXCEPT !.hits = hits, !.contexts = contexts, !.order = order]
         /\ HandlerCatch(c)
      \/ /\ ~OutOfRange(hits, selectedIndices)
         /\ LET citations == Citations(hits, selectedIndices)
                prompt == ComposePrompt(SelectedContexts(contexts, selectedIndices),
                                        request.query)
            IN  /\ loc' = [loc EXCEPT !.hits = hits, !.contexts = contexts,
                                      !.order = order, !.citations = citations,
                                      !.prompt = prompt]
                /\ calls' = Append(c, Call("generate", prompt))
         /\ pc' = "generate"
         /\ UNCHANGED replies

\* the vector search (60 s timeout) answers
SearchResponse(resp) ==
  /\ pc = "search"
  /\ resp \in SearchResponses(points, calls[Len(calls)].body.filter)
  /\ LET c == Answered(resp)
         \* searchRes.data?.result || []
         hits == resp.result
     IN  \/ /\ resp.kind \in {"error", "timeout"}
            /\ HandlerCatch(c)
            /\ UNCHANGED loc
         \/ /\ resp.kind \notin {"error", "timeout"}
            /\ IsZeroHit(hits)
            /\ calls' = c
            /\ replies' = Append(replies,
                                 Response(200, [answer |-> NoInformation,
                                                citations |-> <<>>]))
            /\ pc' = "done"
            /\ UNCHANGED loc
         \/ /\ resp.kind \notin {"error", "timeout"}
            /\ ~IsZeroHit(hits)
            /\ ~RerankConfigured(RERANK_BASE_URL)
            \* rerankContexts returns contexts.map((_, idx) => idx)
            /\ SelectAndGenerate(c, hits, Contexts(hits), Identity(Contexts(hits)))
         \/ /\ resp.kind \notin {"error", "timeout"}
            /\ ~IsZeroHit(hits)
            /\ RerankConfigured(RERANK_BASE_URL)
            /\ loc' = [loc EXCEPT !.hits = hits, !.contexts = Contexts(hits)]
            /\ calls' = Append(c, Call("rerank", [query |-> request.query,
                                                  texts |-> Contexts(hits)]))
            /\ pc' = "rerank"
            /\ UNCHANGED replies
  /\ UNCHANGED <<ctVars, rrVars, ecVars, uiVars, configVars, storeVars, nextUuid, request, served, ingested>>

\* the rerank backend (30 s timeout) answers
RerankResponse(resp) ==
  /\ pc = "rerank"
  /\ resp \in RerankResponses(Len(loc.contexts), CoarseScoreVals)
  /\ LET r == RerankResult(resp, loc.contexts)
     IN  \/ /\ r.threw
            \* rerankContexts never rejects: it catches every error itself
            /\ HandlerCatch(Answered(resp))
            /\ UNCHANGED loc
         \/ /\ ~r.threw
            /\ SelectAndGenerate(Answered(resp), loc.hits, loc.contexts, r.order)
  /\ UNCHANGED <<ctVars, rrVars, ecVars, uiVars, configVars, storeVars, nextUuid, request, served, ingested>>

\* the LLM backend (300 s timeout) answers
GenerateResponse(resp) ==
  /\ pc = "generate"
  /\ resp \in GenerateResponses(LLM_PROVIDER)
  /\ LET r == GenerateResult(LLM_PROVIDER, resp)
     IN  /\ loc' = [loc EXCEPT !.rawAnswer = r]
         /\ \/ /\ (r.threw \/ ~r.value.defined)
               \* generateAnswer rejected, or rawAnswer.trim() threw a TypeError
               /\ HandlerCatch(Answered(resp))
            \/ /\ ~r.threw
               /\ r.value.defined
               /\ calls' = Answered(resp)
               /\ replies' = Append(replies,
                                    Response(200, [answer |-> Trim(r.value.str),
                                                   citations |-> loc.citations]))
               /\ pc' = "done"
  /\ UNCHANGED <<ctVars, rrVars, ecVars, uiVars, configVars, storeVars, nextUuid, request, served,
                 ingested>>

Init ==
  /\ ChunkIdle
  /\ RerankIdle
  /\ EnsureIdle
  /\ ServerInit
  /\ HandlerIdle
  /\ ClientIdle

\* the server receives up to MaxRequests requests, one after the other
Next ==
  \/ /\ served < MaxRequests
     /\ \E text \in IngestTexts, category \in Categories \cup {""} :
          ReceiveIngest(text, category)
  \/ /\ served < MaxRequests
     /\ \E query \in Queries, category \in Categories \cup {""} :
          ReceiveQuery(query, category)
  \/ /\ served < MaxRequests
     /\ ReceiveHealth
  \/ \E outcome \in {"ok", "error"} : CollectionGetResponse(outcome)
  \/ \E outcome \in {"ok", "error"} : CollectionPutResponse(outcome)
  \/ \E resp \in EmbedResponses(IF pc = "embed" THEN Len(calls[Len(calls)].body) ELSE 0) :
       EmbedResponse(resp)
  \/ \E outcome \in {"ok", "error", "timeout"}, applied \in BOOLEAN :
       UpsertResponse(outcome, applied)
  \/ \E resp \in SearchResponses(points, IF pc = "search" THEN calls[Len(calls)].body.filter
                                         ELSE <<>>) :
       SearchResponse(resp)
  \/ \E resp \in RerankResponses(Len(loc.contexts), CoarseScoreVals) : RerankResponse(resp)
  \/ \E resp \in GenerateResponses(LLM_PROVIDER) : GenerateResponse(resp)

Spec == Init /\ [][Next]_vars

(***************************************************************************)
(* The server with its timers.  A backend may never answer, so no answer   *)
(* is guaranteed to arrive; what is guaranteed is that the timeout of a    *)
(* request that carries one elapses while the request is still awaited:    *)
(* 30 s for the embedding and the rerank request, 60 s for the search and  *)
(* the upsert request, 300 s for the generation request.  The two requests *)
(* of ensureCollection carry none.                                         *)
(***************************************************************************)
TimeoutFires ==
  \/ EmbedResponse([kind |-> "timeout", embeddings |-> <<>>])
  \/ \E applied \in BOOLEAN : UpsertResponse("timeout", applied)
  \/ SearchResponse([kind |-> "timeout", result |-> <<>>])
  \/ RerankResponse([kind |-> "timeout", scores |-> <<>>])
  \/ GenerateResponse([kind |-> "timeout", data |-> NoData])

LiveSpec == Init /\ [][Next]_vars /\ WF_vars(TimeoutFires)

(***************************************************************************)
(* The server receiving up to MaxSeqRequests requests one after the other, *)
(* an ingestion of a one-chunk document or a query each, with no rerank    *)
(* backend configured.                                                     *)
(***************************************************************************)
ShortTexts == {<<"a">>, <<"a", " ", "b">>}

SeqInit ==
  /\ ChunkIdle
  /\ RerankIdle
  /\ EnsureIdle
  /\ RERANK_BASE_URL = ""
  /\ LLM_PROVIDER = "ollama"
  /\ MAX_CONTEXT = MaxContextEnv
  /\ collectionExists \in BOOLEAN
  /\ points = IF collectionExists THEN SeedPoints ELSE <<>>
  /\ HandlerIdle
  /\ ClientIdle

SeqNext ==
  \/ /\ served < MaxSeqRequests
     /\ \E text \in ShortTexts, category \in Categories : ReceiveIngest(text, category)
  \/ /\ served < MaxSeqRequests
     /\ \E category \in Categories \cup {""} : ReceiveQuery("q", category)
  \/ \E outcome \in {"ok", "error"} : CollectionGetResponse(outcome)
  \/ \E outcome \in {"ok", "error"} : CollectionPutResponse(outcome)
  \/ \E resp \in EmbedResponses(IF pc = "embed" THEN Len(calls[Len(calls)].body) ELSE 0) :
       EmbedResponse(resp)
  \/ \E outcome \in {"ok", "error", "timeout"}, applied \in BOOLEAN :
       UpsertResponse(outcome, applied)
  \/ \E resp \in SearchResponses(points, IF pc = "search" THEN calls[Len(calls)].body.filter
                                         ELSE <<>>) :
       SearchResponse(resp)
  \/ \E resp \in GenerateResponses(LLM_PROVIDER) : GenerateResponse(resp)

SeqSpec == SeqInit /\ [][SeqNext]_vars

(***************************************************************************)
(* chunkText on its own: the inputs are drawn from the bounded sets, and   *)
(* one action applies the function.                                        *)
(***************************************************************************)
ChunkInit ==
  /\ ct_pc = "call"
  /\ ct_text \in TextsUpTo(MaxTextLen)
  /\ ct_maxTokens \in 1..MaxLimit
  /\ ct_chunks = <<>>
  /\ RerankIdle
  /\ EnsureIdle
  /\ RERANK_BASE_URL = ""
  /\ LLM_PROVIDER = "ollama"
  /\ MAX_CONTEXT = DefaultMaxContext
  /\ collectionExists = FALSE
  /\ points = <<>>
  /\ HandlerIdle
  /\ ClientIdle

CallChunkText ==
  /\ ct_pc = "call"
  /\ ct_chunks' = chunkText(ct_text, ct_maxTokens)
  /\ ct_pc' = "returned"
  /\ UNCHANGED <<ct_text, ct_maxTokens, rrVars, ecVars, uiVars, configVars, storeVars, handlerVars>>

ChunkNext == CallChunkText

ChunkSpec == ChunkInit /\ [][ChunkNext]_vars

(***************************************************************************)
(* rerankContexts on its own: the arguments and the configuration are      *)
(* drawn from the bounded sets; one action runs the function up to its     *)
(* await, one runs it from the backend's answer to its return.             *)
(***************************************************************************)
RerankInit ==
  /\ rr_pc = "call"
  /\ rr_query \in Queries
  /\ rr_contexts \in {[i \in 1..n |-> <<"x">>] : n \in 0..MaxHits}
  /\ rr_calls = <<>>
  /\ rr_result = <<>>
  /\ ChunkIdle
  /\ EnsureIdle
  /\ RERANK_BASE_URL \in {"", "http://rerank"}
  /\ LLM_PROVIDER = "ollama"
  /\ MAX_CONTEXT = DefaultMaxContext
  /\ collectionExists = FALSE
  /\ points = <<>>
  /\ HandlerIdle
  /\ ClientIdle

RerankEnter ==
  /\ rr_pc = "call"
  /\ \/ /\ ~RerankConfigured(RERANK_BASE_URL)
        /\ rr_result' = Identity(rr_contexts)
        /\ rr_pc' = "returned"
        /\ UNCHANGED rr_calls
     \/ /\ RerankConfigured(RERANK_BASE_URL)
        /\ rr_calls' = Append(rr_calls, Call("rerank", [query |-> rr_query,
                                                        texts |-> rr_contexts]))
        /\ rr_pc' = "await"
        /\ UNCHANGED rr_result
  /\ UNCHANGED <<rr_query, rr_contexts, ctVars, ecVars, uiVars, configVars, storeVars, handlerVars>>

RerankAnswer(resp) ==
  /\ rr_pc = "await"
  /\ resp \in RerankResponses(Len(rr_contexts), ScoreVals)
  /\ LET r == RerankResult(resp, rr_contexts)
     IN  /\ rr_result' = r.order
         /\ rr_pc' = IF r.threw THEN "threw" ELSE "returned"
  /\ rr_calls' = [rr_calls EXCEPT ![Len(rr_calls)].outcome = resp]
  /\ UNCHANGED <<rr_query, rr_contexts, ctVars, ecVars, uiVars, configVars, storeVars, handlerVars>>

RerankNext ==
  \/ RerankEnter
  \/ \E resp \in RerankResponses(Len(rr_contexts), ScoreVals) : RerankAnswer(resp)

RerankSpec == RerankInit /\ [][RerankNext]_vars

(***************************************************************************)
(* ensureCollection on its own: up to MaxEnsureCalls calls, each made by   *)
(* the handler of a request, a call entering at any time (after the calls  *)
(* before it have returned, or while they are still awaiting the vector    *)
(* store).  ec_pc[i] names the caller of call i and where the call stands; *)
(* ec_log lists, in order, the requests issued and the answers received,   *)
(* each answer with whether the collection existed when it was given.      *)
(***************************************************************************)
Routes == {"/ingest/text", "/chat/query", "/healthz"}

Event(i, api, ev) == [call |-> i, api |-> api, ev |-> ev, exists |-> collectionExists]

EnsureInit ==
  /\ EnsureIdle
  /\ ChunkIdle
  /\ RerankIdle
  /\ RERANK_BASE_URL = ""
  /\ LLM_PROVIDER = "ollama"
  /\ MAX_CONTEXT = DefaultMaxContext
  /\ collectionExists \in BOOLEAN
  /\ points = IF collectionExists THEN SeedPoints ELSE <<>>
  /\ HandlerIdle
  /\ ClientIdle

\* a handler calls ensureCollection, which runs up to its first await
EnsureEnter(caller) ==
  /\ Len(ec_pc) < MaxEnsureCalls
  /\ ec_pc' = Append(ec_pc, [caller |-> caller, at |-> "collection_get"])
  /\ ec_log' = Append(ec_log, Event(Len(ec_pc) + 1, "collection_get", "issued"))
  /\ UNCHANGED <<ctVars, rrVars, uiVars, configVars, storeVars, handlerVars>>

\* the existence check of call i answers
EnsureGetAnswer(i, outcome) ==
  /\ i \in 1..Len(ec_pc)
  /\ ec_pc[i].at = "collection_get"
  /\ outcome \in CollectionGetOutcomes(collectionExists)
  /\ LET then == EnsureAfterGet(outcome)
         answered == Append(ec_log, Event(i, "collection_get", outcome))
     IN  /\ ec_pc' = [ec_pc EXCEPT ![i].at = IF then = "return" THEN "returned"
                                             ELSE IF then = "put" THEN "collection_put"
                                             ELSE "threw"]
         /\ ec_log' = IF then = "put"
                      THEN Append(answered, Event(i, "collection_put", "issued"))
                      ELSE answered
  /\ UNCHANGED <<ctVars, rrVars, uiVars, configVars, storeVars, handlerVars>>

\* the creation request of call i answers
EnsurePutAnswer(i, outcome) ==
  /\ i \in 1..Len(ec_pc)
  /\ ec_pc[i].at = "collection_put"
  /\ outcome \in CollectionPutOutcomes(collectionExists)
  /\ collectionExists' = (collectionExists \/ outcome = "ok")
  /\ ec_pc' = [ec_pc EXCEPT ![i].at = IF EnsureAfterPut(outcome) = "return" THEN "returned"
                                      ELSE "threw"]
  /\ ec_log' = Append(ec_log, Event(i, "collection_put", outcome))
  /\ UNCHANGED <<ctVars, rrVars, uiVars, configVars, points, handlerVars>>

EnsureNext ==
  \/ \E caller \in Routes : EnsureEnter(caller)
  \/ \E i \in 1..MaxEnsureCalls, outcome \in {"ok", "error"} : EnsureGetAnswer(i, outcome)
  \/ \E i \in 1..MaxEnsureCalls, outcome \in {"ok", "error"} : EnsurePutAnswer(i, outcome)

EnsureSpec == EnsureInit /\ [][EnsureNext]_vars

(***************************************************************************)
(* The web client (App, ChatWindow, ChatInput, Sidebar).  Every event      *)
(* handler runs to its end, or to its await, against the state of the      *)
(* latest render; the updater functions it hands to setChats are applied   *)
(* to the latest chats, in order.  A chat is a record [id, title,          *)
(* messages], a message a record [id, role, content, citations]; the       *)
(* value of the textarea and the content of a message are sequences of     *)
(* characters.  A send is a call of handleSendMessage that went past its   *)
(* guard: the record of its constants (the current chat id and the chats   *)
(* of the render it was called in, the content, the id of its user         *)
(* message) and of its /chat/query call, which carries no timeout.         *)
(***************************************************************************)
InputValues == {<<>>, <<" ">>, <<"a">>, <<" ", "a", "\n">>}

\* the chats found in local storage: none, or one chat with one message
SavedChat ==
  [id |-> 101, title |-> "New Chat",
   messages |-> <<[id |-> 102, role |-> "user", content |-> <<"a">>, citations |-> <<>>]>>]

ErrorText == <<"Error: unable to retrieve response from server. Please try again later.">>

\* how the /chat/query call of a send settles: a 2xx response with its
\* body, or a rejection (another status, no connection)
ClientOutcomes ==
  {[kind |-> "ok", answer |-> <<"b">>, citations |-> <<[documentId |-> 11, chunkId |-> 1]>>],
   [kind |-> "failed", answer |-> <<>>, citations |-> <<>>]}

\* prev.map(chat => chat.id !== currentChatId
\*                    ? chat : {...chat, messages: [...chat.messages, message]}),
\* prev the latest chats, rendered the chats of the render the handler was
\* created in
AppendMessageStale(prev, rendered, chatId, message) ==
  [k \in 1..Len(rendered) |->
     IF rendered[k].id # chatId THEN rendered[k]
     ELSE [rendered[k] EXCEPT !.messages = Append(@, message)]]

AppendMessage(prev, rendered, chatId, message) ==
  [k \in 1..Len(prev) |->
     IF prev[k].id # chatId THEN prev[k]
     ELSE [prev[k] EXCEPT !.messages = Append(@, message)]]

\* ChatWindow: disabled={!chat}, chat = chats.find(c => c.id === currentChatId) || null
Disabled(chats, currentChatId) == ~\E k \in 1..Len(chats) : chats[k].id = currentChatId

\* ChatInput: value.trim().length > 0 && !disabled
SubmitAllowed(value, disabled) == Len(Trim(value)) > 0 /\ ~disabled

ClientInit ==
  /\ ui_chats \in {<<>>, <<SavedChat>>}
  /\ ui_currentChatId = IF Len(ui_chats) > 0 THEN ui_chats[1].id ELSE NoId
  /\ ui_sends = <<>>
  /\ ui_nextUuid = 1
  /\ ChunkIdle
  /\ RerankIdle
  /\ EnsureIdle
  /\ RERANK_BASE_URL = ""
  /\ LLM_PROVIDER = "ollama"
  /\ MAX_CONTEXT = DefaultMaxContext
  /\ collectionExists = FALSE
  /\ points = <<>>
  /\ HandlerIdle

\* handleNewChat
NewChat ==
  /\ Len(ui_chats) < MaxChats
  /\ ui_chats' = <<[id |-> ui_nextUuid, title |-> "New Chat", messages |-> <<>>]>> \o ui_chats
  /\ ui_currentChatId' = ui_nextUuid
  /\ ui_nextUuid' = ui_nextUuid + 1
  /\ UNCHANGED ui_sends

\* the + New button of the sidebar
ClickNewChat ==
  /\ NewChat
  /\ UNCHANGED <<ctVars, rrVars, ecVars, configVars, storeVars, handlerVars>>

\* a chat of the sidebar is clicked: handleSelectChat
ClickChat(id) ==
  /\ \E k \in 1..Len(ui_chats) : ui_chats[k].id = id
  /\ ui_currentChatId' = id
  /\ UNCHANGED <<ui_chats, ui_sends, ui_nextUuid>>
  /\ UNCHANGED <<ctVars, rrVars, ecVars, configVars, storeVars, handlerVars>>

\* handleSendMessage(content), up to its await
SendMessage(content) ==
  IF ui_currentChatId = NoId
  THEN NewChat
  ELSE LET userMessage == [id |-> ui_nextUuid, role |-> "user", content |-> content,
                           citations |-> <<>>]
       IN  /\ Len(ui_sends) < MaxSends
           /\ ui_chats' = AppendMessage(ui_chats, ui_chats, ui_currentChatId, userMessage)
           /\ ui_sends' = Append(ui_sends, [chatId |-> ui_currentChatId, content |-> content,
                                            userId |-> userMessage.id, rendered |-> ui_chats,
                                            call |-> "pending", assistantId |-> NoId])
           /\ ui_nextUuid' = ui_nextUuid + 1
           /\ UNCHANGED ui_currentChatId

\* Enter is pressed, or the send button clicked, with value in the
\* textarea: ChatInput.handleKeyDown / handleClick
SubmitInput(value) ==
  /\ IF SubmitAllowed(value, Disabled(ui_chats, ui_currentChatId))
     THEN SendMessage(Trim(value))
     ELSE UNCHANGED uiVars
  /\ UNCHANGED <<ctVars, rrVars, ecVars, configVars, storeVars, handlerVars>>

\* the /chat/query call of send i settles: handleSendMessage from its await
\* to its end
SendSettles(i, outcome) ==
  /\ i \in 1..Len(ui_sends)
  /\ ui_sends[i].call = "pending"
  /\ outcome \in ClientOutcomes
  /\ LET assistantMessage ==
           IF outcome.kind = "ok"
           THEN [id |-> ui_nextUuid, role |-> "assistant", content |-> outcome.answer,
                 citations |-> outcome.citations]
           ELSE [id |-> ui_nextUuid, role |-> "assistant", content |-> ErrorText,
                 citations |-> <<>>]
     IN  /\ ui_chats' = AppendMessage(ui_chats, ui_sends[i].rendered, ui_sends[i].chatId,
                                      assistantMessage)
         /\ ui_sends' = [ui_sends EXCEPT ![i].call = outcome.kind,
                                         ![i].assistantId = assistantMessage.id]
  /\ ui_nextUuid' = ui_nextUuid + 1
  /\ UNCHANGED ui_currentChatId
  /\ UNCHANGED <<ctVars, rrVars, ecVars, configVars, storeVars, handlerVars>>

ClientNext ==
  \/ ClickNewChat
  \/ \E k \in 1..MaxChats : k <= Len(ui_chats) /\ ClickChat(ui_chats[k].id)
  \/ \E value \in InputValues : SubmitInput(value)
  \/ \E i \in 1..MaxSends, outcome \in ClientOutcomes : SendSettles(i, outcome)

\* a call that was issued settles: the server answers it or the browser
\* gives it up
ClientSpec ==
  /\ ClientInit
  /\ [][ClientNext]_vars
  /\ \A i \in 1..MaxSends : WF_vars(\E outcome \in ClientOutcomes : SendSettles(i, outcome))

(***************************************************************************)
(* Notions the properties below are stated with.                           *)
(***************************************************************************)
\* the whitespace-delimited words of a text: its maximal runs of
\* non-whitespace characters, in order
RECURSIVE WordsFrom(_, _, _)
WordsFrom(text, i, cur) ==
  IF i > Len(text) THEN (IF cur = <<>> THEN <<>> ELSE <<cur>>)
  ELSE IF text[i] \in Whitespace
  THEN (IF cur = <<>> THEN <<>> ELSE <<cur>>) \o WordsFrom(text, i + 1, <<>>)
  ELSE WordsFrom(text, i + 1, Append(cur, text[i]))

WordsOf(text) == WordsFrom(text, 1, <<>>)

RECURSIVE Flatten(_)
Flatten(seqs) == IF seqs = <<>> THEN <<>> ELSE Head(seqs) \o Flatten(Tail(seqs))

CeilDiv(w, l) == (w + l - 1) \div l

IsPermutation(order, n) ==
  /\ Len(order) = n
  /\ \A i \in 0..(n - 1) : \E k \in 1..n : order[k] = i

\* the request in flight is a query (an ingestion) that ended in a 200
QuerySucceeded ==
  /\ pc = "done"
  /\ request.route = "/chat/query"
  /\ Len(replies) = 1
  /\ replies[1].status = 200

IngestSucceeded ==
  /\ pc = "done"
  /\ request.route = "/ingest/text"
  /\ Len(replies) = 1
  /\ replies[1].status = 200

CallsTo(api) == {k \in 1..Len(calls) : calls[k].api = api}

(***************************************************************************)
(* C1.  Every /chat/query that succeeds with at least one hit cites        *)
(* exactly the hits at the first MAX_CONTEXT indices of the order          *)
(* rerankContexts returned, in that order, and the prompt sent to the LLM  *)
(* labels the context text of the hit behind citation N with marker N,     *)
(* N = 1..number of citations.                                             *)
(***************************************************************************)
C1_CitationAlignment ==
  (QuerySucceeded /\ Len(loc.hits) > 0) =>
    LET n == Min(MAX_CONTEXT, Len(loc.order))
        cited == replies[1].body.citations
        sent == calls[Len(calls)].body
    IN  /\ calls[Len(calls)].api = "generate"
        /\ Len(cited) = n
        /\ Len(sent.context) = n
        /\ \A k \in 1..n :
             LET hit == loc.hits[loc.order[k] + 1]
             IN  /\ cited[k] = [documentId |-> hit.payload.documentId, chunkId |-> hit.id]
                 /\ sent.context[k] = [marker |-> k, text |-> hit.payload.text]

\* a success whose rerank order moved another hit to the front and was cut
\* to MAX_CONTEXT
C1_Witness ==
  /\ QuerySucceeded
  /\ Len(loc.hits) = 3
  /\ loc.order = <<2, 0, 1>>
  /\ MAX_CONTEXT = 2
  /\ Len(replies[1].body.citations) = 2

(***************************************************************************)
(* C2.  When the vector search of a /chat/query returns zero hits, the     *)
(* query ends as a success with the fixed no-information answer and an     *)
(* empty citation list, and no rerank call and no generation call is       *)
(* issued.                                                                 *)
(***************************************************************************)
SearchReturnedZeroHits ==
  \E k \in CallsTo("search") :
    /\ calls[k].outcome.kind \in {"ok", "no_result"}
    /\ Len(calls[k].outcome.result) = 0

C2_ZeroHitSuccess ==
  SearchReturnedZeroHits =>
    /\ pc = "done"
    /\ replies = <<[status |-> 200,
                    body |-> [answer |-> NoInformation, citations |-> <<>>]]>>
    /\ CallsTo("rerank") = {}
    /\ CallsTo("generate") = {}

C2_Witness ==
  /\ SearchReturnedZeroHits
  /\ RERANK_BASE_URL # ""
  /\ collectionExists /\ Len(points) > 0
  /\ pc = "done"

(***************************************************************************)
(* C3.  In a /chat/query, a failure of collection provisioning, of the     *)
(* query embedding, of the vector search or of generation ends the request *)
(* with exactly one response, the generic failure (status 500 and the same *)
(* fixed body whichever stage failed); no answer and no citation list is   *)
(* sent.                                                                   *)
(***************************************************************************)
\* the outcome of a generate call that delivers no text
GenerationFailed(o) ==
  \/ o.kind \in {"error", "timeout"}
  \/ /\ o.kind = "ok"
     /\ IF LLM_PROVIDER = "ollama" THEN ~o.data.hasResponse
        ELSE \/ ~o.data.hasChoices
             \/ o.data.choices = <<>>
             \/ ~o.data.choices[1].hasMessage
             \/ ~o.data.choices[1].hasContent

StageFailed(call) ==
  \/ call.api = "collection_put" /\ call.outcome.kind = "error"
  \/ call.api = "embed" /\ call.outcome.kind \in {"error", "timeout", "no_embeddings"}
  \/ call.api = "search" /\ call.outcome.kind \in {"error", "timeout"}
  \/ call.api = "generate" /\ GenerationFailed(call.outcome)

C3_GenericFailure ==
  /\ Len(replies) <= 1
  /\ (request.route = "/chat/query" /\ \E k \in 1..Len(calls) : StageFailed(calls[k])) =>
       /\ pc = "done"
       /\ replies = <<[status |-> 500,
                       body |-> [error |-> "Failed to process chat query"]]>>

C3_Witness ==
  /\ request.route = "/chat/query"
  /\ \E k \in CallsTo("generate") : calls[k].outcome.kind = "timeout"
  /\ Len(loc.citations) > 0
  /\ pc = "done"

(***************************************************************************)
(* C4.  When a rerank backend is configured and its call fails (error,     *)
(* timeout) or answers without a scores array, rerankContexts returns the  *)
(* identity order and the query goes on to selection and generation: the   *)
(* first MAX_CONTEXT hits are cited in retrieval order, the generation     *)
(* call is issued, and the request has not failed unless generation did.   *)
(***************************************************************************)
RerankFellBack ==
  \E k \in CallsTo("rerank") :
    calls[k].outcome.kind \in {"error", "timeout", "no_data", "no_scores"}

C4_RerankBestEffort ==
  RerankFellBack =>
    LET k == CHOOSE j \in CallsTo("rerank") : TRUE
        n == Min(MAX_CONTEXT, Len(loc.hits))
    IN  /\ loc.order = [i \in 1..Len(loc.contexts) |-> i - 1]
        /\ Len(calls) = k + 1
        /\ calls[k + 1].api = "generate"
        /\ loc.citations = [i \in 1..n |-> [documentId |-> loc.hits[i].payload.documentId,
                                            chunkId |-> loc.hits[i].id]]
        /\ (replies # <<>> /\ replies[1].status # 200) => GenerationFailed(calls[k + 1].outcome)

C4_Witness ==
  /\ \E k \in CallsTo("rerank") : calls[k].outcome.kind = "no_scores"
  /\ QuerySucceeded
  /\ Len(loc.hits) = 3

(***************************************************************************)
(* C5.  For every list of contexts and every backend response, a list      *)
(* rerankContexts returns is a permutation of 0..len(contexts)-1.          *)
(***************************************************************************)
C5_AlwaysPermutation ==
  (rr_pc = "returned") => IsPermutation(rr_result, Len(rr_contexts))

(***************************************************************************)
(* C6.  When a rerank backend is configured and returns one score per      *)
(* context, rerankContexts returns the indices sorted by descending score, *)
(* indices with equal scores in their original relative order; for the     *)
(* scores [0.2, 0.9, 0.5] it returns [1, 2, 0].                            *)
(***************************************************************************)
ScoredPerContext ==
  /\ rr_pc = "returned"
  /\ rr_calls # <<>>
  /\ rr_calls[1].outcome.kind = "scores"
  /\ Len(rr_calls[1].outcome.scores) = Len(rr_contexts)

C6_DescendingStable ==
  ScoredPerContext =>
    LET scores == rr_calls[1].outcome.scores
        n == Len(rr_contexts)
    IN  /\ IsPermutation(rr_result, n)
        /\ \A i, j \in 1..n :
             i < j =>
               \/ scores[rr_result[i] + 1] > scores[rr_result[j] + 1]
               \/ /\ scores[rr_result[i] + 1] = scores[rr_result[j] + 1]
                  /\ rr_result[i] < rr_result[j]
        /\ (scores = <<2, 9, 5>>) => (rr_result = <<1, 2, 0>>)

C6_Witness ==
  /\ ScoredPerContext
  /\ rr_calls[1].outcome.scores = <<5, 9, 5>>
  /\ rr_result = <<1, 0, 2>>

(***************************************************************************)
(* C7.  When no rerank backend is configured, rerankContexts returns       *)
(* [0, 1, ..., len(contexts)-1] for every query and every list of          *)
(* contexts, and issues no network call.                                   *)
(***************************************************************************)
C7_IdentityWithoutBackend ==
  (RERANK_BASE_URL = "") =>
    /\ rr_calls = <<>>
    /\ rr_pc \in {"call", "returned"}
    /\ (rr_pc = "returned") => (rr_result = [i \in 1..Len(rr_contexts) |-> i - 1])

C7_Witness ==
  /\ RERANK_BASE_URL = ""
  /\ rr_pc = "returned"
  /\ Len(rr_contexts) = 3
  /\ rr_result = <<0, 1, 2>>

(***************************************************************************)
(* C8.  For any text with W whitespace-delimited words and any limit       *)
(* L >= 1, chunkText returns exactly ceil(W / L) chunks (none for the      *)
(* empty text).                                                            *)
(***************************************************************************)
C8_ChunkCount ==
  (ct_pc = "returned" /\ ct_maxTokens >= 1) =>
    Len(ct_chunks) = CeilDiv(Len(WordsOf(ct_text)), ct_maxTokens)

(***************************************************************************)
(* C9.  For any text and limit L >= 1, the words of the chunks chunkText   *)
(* returns, concatenated in chunk order, are the words of the text; every  *)
(* chunk holds at most L words, and every chunk but the last exactly L.    *)
(***************************************************************************)
C9_ChunksCoverWords ==
  (ct_pc = "returned" /\ ct_maxTokens >= 1) =>
    LET perChunk == [k \in 1..Len(ct_chunks) |-> WordsOf(ct_chunks[k])]
    IN  /\ Flatten(perChunk) = WordsOf(ct_text)
        /\ \A k \in 1..Len(ct_chunks) : Len(perChunk[k]) <= ct_maxTokens
        /\ \A k \in 1..(Len(ct_chunks) - 1) : Len(perChunk[k]) = ct_maxTokens

(***************************************************************************)
(* C10.  A successful /ingest/text issues exactly one embedding call, which*)
(* carries all chunks, and exactly one upsert request, whose points are    *)
(* one per chunk, in chunk order, each with its chunk's text, the          *)
(* request's category and the one generated documentId, which no point     *)
(* indexed before carries; the response reports that documentId and the    *)
(* number of upserted points, 3 for the 1200-word text.                    *)
(***************************************************************************)
C10_IngestOneBatch ==
  IngestSucceeded =>
    /\ Cardinality(CallsTo("embed")) = 1
    /\ Cardinality(CallsTo("upsert")) = 1
    /\ LET e == CHOOSE k \in CallsTo("embed") : TRUE
           u == CHOOSE k \in CallsTo("upsert") : TRUE
           chunks == calls[e].body
           sent == calls[u].body.points
           id == replies[1].body.documentId
           before == Len(points) - Len(sent)
       IN  /\ chunks = loc.chunks
           /\ Len(sent) = Len(chunks)
           /\ \A k \in 1..Len(sent) :
                /\ sent[k].payload.text = chunks[k]
                /\ sent[k].payload.category = request.category
                /\ sent[k].payload.documentId = id
           /\ replies[1].body.chunks = Len(sent)
           /\ before >= 0
           /\ SubSeq(points, before + 1, Len(points)) = sent
           /\ \A k \in 1..before : points[k].payload.documentId # id
           /\ (request.text = LongDoc) => (replies[1].body.chunks = 3)

C10_Witness ==
  /\ IngestSucceeded
  /\ request.text = LongDoc
  /\ replies[1].body.chunks = 3
  /\ Len(points) = 6

(***************************************************************************)
(* C11.  Whatever the embedding backend responds, an embedTexts call on N  *)
(* texts that does not fail returns exactly N vectors, the k-th computed   *)
(* for the k-th text; and every point of every upsert request carries a    *)
(* vector, the one computed for its own chunk.                             *)
(***************************************************************************)
C11_EmbedAligned ==
  /\ \A k \in CallsTo("embed") :
       (calls[k].outcome.kind = "embeddings") =>
         loc.vectors = [i \in 1..Len(calls[k].body) |-> i - 1]
  /\ \A u \in CallsTo("upsert") :
       \A j \in 1..Len(calls[u].body.points) :
         calls[u].body.points[j].vector = [defined |-> TRUE, v |-> j - 1]

(***************************************************************************)
(* Notions about the log of ensureCollection calls.                        *)
(***************************************************************************)
EventsOf(i, api, ev) ==
  {a \in 1..Len(ec_log) : ec_log[a].call = i /\ ec_log[a].api = api /\ ec_log[a].ev = ev}

\* the creation requests call i issued
Creations(i) == EventsOf(i, "collection_put", "issued")

\* the answers after which call i returned without an error
ReturnedAt(i) == EventsOf(i, "collection_get", "ok") \cup EventsOf(i, "collection_put", "ok")

\* call j was made after call i had returned successfully
InSequence(i, j) ==
  \E a \in ReturnedAt(i), b \in EventsOf(j, "collection_get", "issued") : a < b

C13_FailsOnlyOnCreation ==
  \A i \in 1..Len(ec_pc) :
    /\ (ec_pc[i].at = "threw") => (EventsOf(i, "collection_put", "error") # {})
    /\ (EventsOf(i, "collection_get", "error") # {}) => (Cardinality(Creations(i)) = 1)
    /\ (EventsOf(i, "collection_put", "ok") # {}) => (ec_pc[i].at = "returned")
    /\ (EventsOf(i, "collection_get", "ok") # {}) =>
         (ec_pc[i].at = "returned" /\ Creations(i) = {})

\* the existence check failed on a collection that exists, and the call
\* went on to the creation request, which the store refused
C13_Witness ==
  /\ Len(ec_pc) >= 1
  /\ \E a \in EventsOf(1, "collection_get", "error") : ec_log[a].exists
  /\ EventsOf(1, "collection_put", "error") # {}
  /\ ec_pc[1].at = "threw"

(***************************************************************************)
(* C14.  A /chat/query request without query text, and an /ingest/text     *)
(* request without text or without category, is answered with a 4xx        *)
(* status and nothing else, and no network call is issued for it: none to  *)
(* the vector store, to the embedding, rerank or LLM backend.              *)
(***************************************************************************)
MissingRequiredField ==
  \/ request.route = "/chat/query" /\ request.query = ""
  \/ request.route = "/ingest/text" /\ (request.text = <<>> \/ request.category = "")

C14_RejectedBeforeAnyCall ==
  MissingRequiredField =>
    /\ pc = "done"
    /\ calls = <<>>
    /\ Len(replies) = 1
    /\ replies[1].status \in 400..499

\* an ingestion with text and no category, against a store without the
\* collection: rejected, and the collection is not created
C14_Witness ==
  /\ request.route = "/ingest/text"
  /\ request.text = LongDoc
  /\ request.category = ""
  /\ replies = <<[status |-> 400, body |-> [error |-> "text and category are required"]]>>
  /\ ~collectionExists

(***************************************************************************)
(* C15.  Every request the server has received is eventually answered,     *)
(* with a success or a failure, even when a backend never replies: each    *)
(* network call the handler awaits is ended by its timeout at the latest.  *)
(***************************************************************************)
C15_EveryRequestAnswered ==
  [](pc \notin {"idle", "done"} => <>(pc = "done" /\ Len(replies) = 1))

(***************************************************************************)
(* C16.  For both providers, once the LLM backend has answered or the      *)
(* request has failed, generateAnswer has either failed or returned a text *)
(* string: it has failed after a transport error, after a timeout and      *)
(* after a response without the expected text field (response for ollama,  *)
(* a first choice with message content for the chat-completion provider),  *)
(* and for the chat-completion provider the text it returned is that of    *)
(* the first choice.                                                       *)
(***************************************************************************)
C16_GenerateTextOrFail ==
  \A k \in CallsTo("generate") :
    (calls[k].outcome.kind # "pending") =>
      /\ GenerationFailed(calls[k].outcome) => loc.rawAnswer.threw
      /\ ~loc.rawAnswer.threw => loc.rawAnswer.value.defined
      /\ (LLM_PROVIDER = "openai_compat" /\ ~loc.rawAnswer.threw) =>
           (loc.rawAnswer.value = Defined(calls[k].outcome.data.choices[1].content))

(***************************************************************************)
(* C17.  /ingest/text sends a success response only once the upsert        *)
(* request, issued in wait-for-completion mode, has been acknowledged; so  *)
(* for every success response /ingest/text has sent, the vector store a    *)
(* later search runs against holds all points of that document, as many    *)
(* as the response reported.                                               *)
(***************************************************************************)
PointsOf(documentId) ==
  {k \in 1..Len(points) : points[k].payload.documentId = documentId}

C17_VisibleAfterSuccess ==
  /\ IngestSucceeded =>
       /\ calls[Len(calls)].api = "upsert"
       /\ calls[Len(calls)].body.wait
       /\ calls[Len(calls)].outcome.kind = "ok"
  /\ \A a \in 1..Len(ingested) :
       Cardinality(PointsOf(ingested[a].documentId)) = ingested[a].chunks

\* a query that follows a successful ingestion into an empty store gets the
\* ingested chunk as its hit and cites it
C17_Witness ==
  /\ QuerySucceeded
  /\ Len(ingested) = 1
  /\ Len(points) = 1
  /\ Len(loc.hits) = 1
  /\ loc.hits[1].payload.documentId = ingested[1].documentId
  /\ replies[1].body.citations =
       <<[documentId |-> ingested[1].documentId, chunkId |-> points[1].id]>>

(***************************************************************************)
(* C18.  The backend calls of a /chat/query request are, in order, a       *)
(* prefix of: existence check, collection creation (present exactly when   *)
(* the check failed), query embedding, vector search, rerank (present only *)
(* when a rerank backend is configured and the search returned hits, and   *)
(* then always before generation), generation.  No call is issued twice,   *)
(* and a call is issued only after the call before it has completed        *)
(* successfully, except that the creation follows the failed check and     *)
(* that generation may follow a failed rerank.                             *)
(***************************************************************************)
ApiSeq == [k \in 1..Len(calls) |-> calls[k].api]

FixedOrder(withCreation, withRerank) ==
  <<"collection_get">>
  \o (IF withCreation THEN <<"collection_put">> ELSE <<>>)
  \o <<"embed", "search">>
  \o (IF withRerank THEN <<"rerank">> ELSE <<>>)
  \o <<"generate">>

IsPrefix(s, t) == Len(s) <= Len(t) /\ s = SubSeq(t, 1, Len(s))

CompletedSuccessfully(call) ==
  \/ call.api \in {"collection_get", "collection_put"} /\ call.outcome.kind = "ok"
  \/ call.api = "embed" /\ call.outcome.kind = "embeddings"
  \/ call.api = "search" /\ call.outcome.kind = "ok"
  \/ call.api = "rerank" /\ call.outcome.kind = "scores"

C18_FixedCallOrder ==
  (request.route = "/chat/query") =>
    LET withCreation == CallsTo("collection_put") # {}
        withRerank == CallsTo("rerank") # {}
    IN  /\ IsPrefix(ApiSeq, FixedOrder(withCreation, withRerank))
        /\ withCreation <=> (calls # <<>> /\ calls[1].outcome.kind = "error")
        /\ withRerank =>
             /\ RERANK_BASE_URL # ""
             /\ \E k \in CallsTo("search") : Len(calls[k].outcome.result) > 0
        /\ (CallsTo("generate") # {} /\ RERANK_BASE_URL # "") => withRerank
        /\ \A k \in 1..(Len(calls) - 1) :
             \/ CompletedSuccessfully(calls[k])
             \/ calls[k].api = "collection_get" /\ calls[k + 1].api = "collection_put"
             \/ calls[k].api = "rerank" /\ calls[k + 1].api = "generate"

\* a query that went through every stage, generation after a rerank that
\* timed out
C18_Witness ==
  /\ QuerySucceeded
  /\ ApiSeq = <<"collection_get", "embed", "search", "rerank", "generate">>
  /\ calls[4].outcome.kind = "timeout"

(***************************************************************************)
(* C19.  An /ingest/text request issues at most one embedding call, for    *)
(* all chunks at once, and at most one upsert request, which follows the   *)
(* successful embedding call and carries one point per chunk.  When        *)
(* provisioning or embedding fails, no upsert request is issued and the    *)
(* request ends with the 5xx response; and the indexed points change only  *)
(* while an upsert request is awaited.                                     *)
(***************************************************************************)
ProvisioningOrEmbeddingFailed ==
  \E k \in 1..Len(calls) :
    \/ calls[k].api = "collection_put" /\ calls[k].outcome.kind = "error"
    \/ calls[k].api = "embed" /\ calls[k].outcome.kind \in {"error", "timeout", "no_embeddings"}

IngestAllOrNothing ==
  (request.route = "/ingest/text") =>
    /\ Cardinality(CallsTo("embed")) <= 1
    /\ Cardinality(CallsTo("upsert")) <= 1
    /\ \A e \in CallsTo("embed") : calls[e].body = loc.chunks
    /\ \A u \in CallsTo("upsert") :
         /\ u = Len(calls)
         /\ calls[u - 1].api = "embed"
         /\ calls[u - 1].outcome.kind = "embeddings"
         /\ Len(calls[u].body.points) = Len(loc.chunks)
    /\ ProvisioningOrEmbeddingFailed =>
         /\ CallsTo("upsert") = {}
         /\ pc = "done"
         /\ Len(replies) = 1
         /\ replies[1].status \in 500..599

C19_UpsertAfterEmbedding ==
  /\ []IngestAllOrNothing
  /\ [][points' # points => pc = "upsert"]_vars

\* the embedding of the three chunks of the long document timed out
C19_Witness ==
  /\ request.route = "/ingest/text"
  /\ Len(loc.chunks) = 3
  /\ calls[Len(calls)].api = "embed"
  /\ calls[Len(calls)].outcome.kind = "timeout"
  /\ replies = <<[status |-> 500, body |-> [error |-> "Failed to ingest document"]]>>
  /\ points = SeedPoints

(***************************************************************************)
(* C20.  When the calls of ensureCollection that concurrent requests make  *)
(* run against a vector store in which the collection is absent at first   *)
(* and whose existence check is reliable (it succeeds exactly when the     *)
(* collection exists), at most one creation request is issued in total,    *)
(* and no creation request fails because the collection exists already.    *)
(***************************************************************************)
AllCalls == 1..Len(ec_pc)

AbsentAtFirst ==
  \/ ~collectionExists
  \/ \E i \in AllCalls : EventsOf(i, "collection_put", "ok") # {}

ReliableCheck ==
  \A a \in 1..Len(ec_log) :
    (ec_log[a].api = "collection_get" /\ ec_log[a].ev \in {"ok", "error"}) =>
      (ec_log[a].ev = "ok" <=> ec_log[a].exists)

C20_OneCreationWhenConcurrent ==
  (AbsentAtFirst /\ ReliableCheck) =>
    /\ Cardinality(UNION {Creations(i) : i \in AllCalls}) <= 1
    /\ \A i \in AllCalls :
         \A a \in EventsOf(i, "collection_put", "error") : ~ec_log[a].exists

(***************************************************************************)
(* C21.  A /chat/query that succeeds answers with an empty citation list   *)
(* only when its search returned no hit: when the search returned hits and *)
(* generation was called, the response carries at least one and at most    *)
(* min(MAX_CONTEXT, number of hits) citations, each of a retrieved hit and *)
(* no hit cited twice, whatever the rerank backend answered.               *)
(***************************************************************************)
C21_CitationsOnlyEmptyWithoutHits ==
  QuerySucceeded =>
    LET cited == replies[1].body.citations
    IN  /\ (cited = <<>>) => SearchReturnedZeroHits
        /\ (Len(loc.hits) > 0 /\ CallsTo("generate") # {}) =>
             /\ Len(cited) \in 1..Min(MAX_CONTEXT, Len(loc.hits))
             /\ \A k \in 1..Len(cited) :
                  \E h \in 1..Len(loc.hits) :
                    cited[k] = [documentId |-> loc.hits[h].payload.documentId,
                                chunkId |-> loc.hits[h].id]
             /\ \A k, l \in 1..Len(cited) : (k # l) => (cited[k] # cited[l])

(***************************************************************************)
(* Notions about the web client.                                           *)
(***************************************************************************)
\* the positions of the message with this id in the chat with this id
PositionsIn(chatId, messageId) ==
  UNION {{p \in 1..Len(ui_chats[k].messages) : ui_chats[k].messages[p].id = messageId} :
           k \in {c \in 1..Len(ui_chats) : ui_chats[c].id = chatId}}

\* the positions of the message with this id in any chat
PositionsAnywhere(messageId) ==
  UNION {PositionsIn(ui_chats[k].id, messageId) : k \in 1..Len(ui_chats)}

MessageAt(chatId, p) ==
  LET k == CHOOSE c \in 1..Len(ui_chats) : ui_chats[c].id = chatId
  IN  ui_chats[k].messages[p]

SendsTo(chatId) == {i \in 1..Len(ui_sends) : ui_sends[i].chatId = chatId}

Settled(i) == ui_sends[i].call # "pending"

\* send i has its user message, and once its call has settled its
\* assistant message, once each, in its chat, in this order
SendInItsChat(i) ==
  LET send == ui_sends[i]
      user == PositionsIn(send.chatId, send.userId)
      assistant == PositionsIn(send.chatId, send.assistantId)
  IN  /\ send.chatId # NoId
      /\ Cardinality({k \in 1..Len(ui_chats) : ui_chats[k].id = send.chatId}) = 1
      /\ Cardinality(user) = 1
      /\ PositionsAnywhere(send.userId) = user
      /\ \A p \in user :
           MessageAt(send.chatId, p) = [id |-> send.userId, role |-> "user",
                                        content |-> send.content, citations |-> <<>>]
      /\ ~Settled(i) => (send.assistantId = NoId /\ assistant = {})
      /\ Settled(i) =>
           /\ Cardinality(assistant) = 1
           /\ PositionsAnywhere(send.assistantId) = assistant
           /\ \A q \in assistant :
                /\ \A p \in user : p < q
                /\ MessageAt(send.chatId, q).role = "assistant"
                /\ (send.call = "failed") => (MessageAt(send.chatId, q).content = ErrorText)
                /\ (send.call = "ok") =>
                     \E o \in ClientOutcomes :
                       /\ o.kind = "ok"
                       /\ MessageAt(send.chatId, q).content = o.answer
                       /\ MessageAt(send.chatId, q).citations = o.citations

\* a chat holds the messages it was loaded with, one message per send to
\* it and one per settled send to it: none is missing, none is extra
NoUpdateLost ==
  \A k \in 1..Len(ui_chats) :
    Len(ui_chats[k].messages) =
      (IF ui_chats[k].id = SavedChat.id THEN Len(SavedChat.messages) ELSE 0)
      + Cardinality(SendsTo(ui_chats[k].id))
      + Cardinality({i \in SendsTo(ui_chats[k].id) : Settled(i)})

ClientInv ==
  /\ \A i \in 1..Len(ui_sends) : SendInItsChat(i)
  /\ NoUpdateLost

====
